---- MODULE Spec2Model ----
(***************************************************************************)
(* A model of ai-chat-bot: the SQLite event store (infra/db/sqlite.py),    *)
(* the two contract clients and their factory (infra/llm), the policy      *)
(* loader (core/config.py), the Telegram adapter's on_message handler      *)
(* (adapters/telegram/bot.py) and the process entry point (__main__.py).   *)
(*                                                                         *)
(* Texts are sequences of tokens: "SP" is one blank and "NL" one newline,   *)
(* every other token is a run of non-whitespace characters.  The empty     *)
(* string is <<>>; str.strip() removes leading and trailing "SP" and "NL". *)
(***************************************************************************)
EXTENDS Integers, Sequences, FiniteSets, TLC

VARIABLES
    settings,       \* core/config.py Settings (frozen at import time)
    rules_file,     \* the policy file on disk: MISSING or its text
    rules_cache,    \* lru_cache of load_system_rules: NOT_LOADED or the text
    proc,           \* process position: "boot" | "polling" | "exited"
    chat,           \* table chat: set of telegram_chat_id
    telegram_user,  \* table telegram_user: set of telegram_user_id
    message,        \* table message: sequence of rows, index = id
    user_state,     \* table user_state: telegram_user_id -> description | NO_ROW
    h,              \* locals of the running on_message call (and its position)
    handled,        \* number of updates delivered to on_message so far
    fetched,        \* the last fetch_recent_events call and what it returned
    client,         \* the last generate_contract call and what it returned
    profile_op,     \* the store's profile calls so far (ProfileSpec)
    built,          \* the last request built and what it was built of (BuildSpec)
    loads,          \* the load_system_rules calls in progress (LoadSpec)
    runs            \* on_message runs in progress side by side (InterleaveSpec)

vars == <<settings, rules_file, rules_cache, proc, chat, telegram_user,
          message, user_state, h, handled, fetched, client, profile_op,
          built, loads, runs>>

-----------------------------------------------------------------------------
(* Bounds of the model *)

MaxAppend == 2          \* insert_message calls explored after the seed log
MaxBacklog == 19        \* unanswered user events in a seed log
MaxLimit == 2           \* largest limit_turns explored
MaxUpdates == 2         \* updates delivered to on_message
MaxUpdateId == 2        \* distinct Telegram update ids

(* Program constants *)

MinWindow == 20         \* max(20, limit_turns * 4): the 20
WindowFactor == 4       \* max(20, limit_turns * 4): the 4
HISTORY_LIMIT == 8      \* Settings.HISTORY_LIMIT default

-----------------------------------------------------------------------------
(* Texts *)

SP == "SP"
NL == "NL"              \* one newline character
EmptyText == <<>>
Whitespace == {SP, NL}

Max(a, b) == IF a >= b THEN a ELSE b
Min(a, b) == IF a <= b THEN a ELSE b

RECURSIVE lstrip(_)
lstrip(s) == IF s # <<>> /\ Head(s) \in Whitespace THEN lstrip(Tail(s)) ELSE s

RECURSIVE rstrip(_)
rstrip(s) ==
    IF s # <<>> /\ s[Len(s)] \in Whitespace
    THEN rstrip(SubSeq(s, 1, Len(s) - 1)) ELSE s

\* str.strip()
strip(s) == rstrip(lstrip(s))

Reverse(s) == [i \in 1..Len(s) |-> s[Len(s) + 1 - i]]

\* Python's seq[start:] for any integer start (negative counts from the end)
PySliceFrom(s, start) ==
    LET n == Len(s)
        b == IF start < 0 THEN Max(n + start, 0) ELSE Min(start, n)
    IN  SubSeq(s, b + 1, n)

\* Python's seq[:stop] for stop >= 0
PySliceTo(s, stop) == SubSeq(s, 1, Min(stop, Len(s)))

-----------------------------------------------------------------------------
(* SQL values.  A nullable TEXT column holds NULL or a text; a nullable     *)
(* INTEGER column holds NULL_ID (SQL NULL) or a positive integer.           *)

NULL_TEXT == [isnull |-> TRUE, s |-> <<>>]
SqlText(s) == [isnull |-> FALSE, s |-> s]
NULL_ID == 0

\* Python's `(v or "")` on a value read from a nullable TEXT column
OrEmpty(v) == IF v.isnull THEN EmptyText ELSE v.s

NO_ROW == [isnull |-> TRUE, s |-> <<"no row">>]

ROLE_USER == <<"user">>
ROLE_ASSISTANT == <<"assistant">>

-----------------------------------------------------------------------------
(* Event store: infra/db/sqlite.py *)

\* A row of table message; its id is its index in the sequence `message`
\* (INTEGER PRIMARY KEY, rows are never deleted).
Row(update_id, chat_id, from_id, role, text) ==
    [update_id |-> update_id, chat_telegram_id |-> chat_id,
     from_telegram_user_id |-> from_id, role |-> role, text |-> text]

\* A plausible slip: the unique index on update_id is not created
IndexMissing(tbl, row) == TRUE

\* The constraints that make the INSERT of insert_message raise
\* sqlite3.IntegrityError: the unique index on update_id (NULLs are distinct)
\* and the two foreign keys (PRAGMA foreign_keys = ON).
IndexAllowsNoDuplicate(tbl, row) ==
    \/ row.update_id = NULL_ID
    \/ \A i \in 1..Len(tbl) : tbl[i].update_id # row.update_id

ForeignKeysHold(chats, users, row) ==
    /\ row.chat_telegram_id \in chats
    /\ row.from_telegram_user_id = NULL_ID \/ row.from_telegram_user_id \in users

\* insert_message: `up` is whether SQLite can carry the statement out at all
\* (FALSE: sqlite3.OperationalError).  Returns whether it raised and the table.
insert_message(up, chats, users, tbl, row) ==
    IF up /\ IndexAllowsNoDuplicate(tbl, row) /\ ForeignKeysHold(chats, users, row)
    THEN [raised |-> FALSE, message |-> Append(tbl, row)]
    ELSE [raised |-> TRUE, message |-> tbl]

\* SELECT ... WHERE chat_telegram_id = ? ORDER BY id DESC LIMIT ?
\* (each selected row keeps its id for the pairing statements below)
SelectRecent(tbl, chat_id, lim) ==
    LET ids == SelectSeq([i \in 1..Len(tbl) |-> i],
                         LAMBDA i : tbl[i].chat_telegram_id = chat_id)
        rows == [k \in 1..Len(ids) |->
                    [id |-> ids[k], role |-> tbl[ids[k]].role,
                     text |-> tbl[ids[k]].text]]
    IN  PySliceTo(Reverse(rows), lim)

NoPending == [set |-> FALSE, text |-> EmptyText, id |-> 0]

\* A plausible slip: the pending user text survives the turn it was paired in
KeepPending(pending) == pending

\* After an assistant row was paired: pending_user_text = None; pending_ts = None
ClearPending(pending) == NoPending

\* The for loop of fetch_recent_events over rows[i..].  A turn carries the
\* stripped texts and, beside them, the ids of the two rows it was built of.
RECURSIVE ScanRows(_, _, _, _)
ScanRows(rows, i, pending, turns) ==
    IF i > Len(rows) THEN turns
    ELSE LET role == strip(rows[i].role)
             text == strip(OrEmpty(rows[i].text))
         IN  IF role = ROLE_USER
             THEN ScanRows(rows, i + 1,
                           [set |-> TRUE, text |-> text, id |-> rows[i].id], turns)
             ELSE IF role = ROLE_ASSISTANT
             THEN IF ~pending.set
                  THEN ScanRows(rows, i + 1, pending, turns)
                  ELSE ScanRows(rows, i + 1, ClearPending(pending),
                                Append(turns, [user |-> pending.text,
                                               assistant |-> text,
                                               uid |-> pending.id,
                                               aid |-> rows[i].id]))
             ELSE ScanRows(rows, i + 1, pending, turns)

\* A plausible slip: the oldest turns are kept instead of the newest
KeepFirst(turns, limit_turns) ==
    IF Len(turns) > limit_turns THEN PySliceTo(turns, limit_turns) ELSE turns

\* if len(turns) > limit_turns: turns = turns[-limit_turns:]
KeepLast(turns, limit_turns) ==
    IF Len(turns) > limit_turns THEN PySliceFrom(turns, 0 - limit_turns) ELSE turns

WindowSize(limit_turns) == Max(MinWindow, limit_turns * WindowFactor)

fetch_recent_events(tbl, chat_id, limit_turns) ==
    LET rows == Reverse(SelectRecent(tbl, chat_id, WindowSize(limit_turns)))
    IN  KeepLast(ScanRows(rows, 1, NoPending, <<>>), limit_turns)

upsert_chat(up, chats, chat_id) ==
    IF up THEN [raised |-> FALSE, chat |-> chats \cup {chat_id}]
    ELSE [raised |-> TRUE, chat |-> chats]

upsert_telegram_user(up, users, user_id) ==
    IF up THEN [raised |-> FALSE, telegram_user |-> users \cup {user_id}]
    ELSE [raised |-> TRUE, telegram_user |-> users]

\* get_user_description: the row's text, or "" after creating the row; the
\* INSERT raises when the foreign key to telegram_user does not hold.
get_user_description(up, users, us, user_id) ==
    IF ~up THEN [raised |-> TRUE, value |-> EmptyText, user_state |-> us]
    ELSE IF us[user_id] # NO_ROW
    THEN [raised |-> FALSE, value |-> us[user_id].s, user_state |-> us]
    ELSE IF user_id \in users
    THEN [raised |-> FALSE, value |-> EmptyText,
          user_state |-> [us EXCEPT ![user_id] = SqlText(EmptyText)]]
    ELSE [raised |-> TRUE, value |-> EmptyText, user_state |-> us]

\* update_user_description: upsert of (user_description or "")
update_user_description(up, users, us, user_id, user_description) ==
    IF up /\ user_id \in users
    THEN [raised |-> FALSE,
          user_state |-> [us EXCEPT ![user_id] = SqlText(user_description)]]
    ELSE [raised |-> TRUE, user_state |-> us]

-----------------------------------------------------------------------------
(* JSON.  A JSON value is a record: t is its Python type after json.loads    *)
(* ("absent" for a key the object lacks), s the text of a string, and m the  *)
(* members of an object.  In a text, an object is written "{" members "}",  *)
(* each member one token; MemberKey and MemberValue read a member token.     *)

J_absent == [t |-> "absent", s |-> <<>>, m |-> <<>>]
J_null == [t |-> "null", s |-> <<>>, m |-> <<>>]
J_int == [t |-> "int", s |-> <<>>, m |-> <<>>]
J_list == [t |-> "list", s |-> <<>>, m |-> <<>>]
J_str(s) == [t |-> "str", s |-> s, m |-> <<>>]
J_dict(m) == [t |-> "dict", s |-> <<>>, m |-> m]

AtMembers == {"at=hi", "at= hi ", "at=", "at=null", "at=5"}
UdMembers == {"ud=cats", "ud=", "ud=null", "ud=7"}
Members == AtMembers \cup UdMembers

MemberKey(tok) == IF tok \in AtMembers THEN "assistant_text" ELSE "updated_user_description"

MemberValue(tok) ==
    CASE tok = "at=hi" -> J_str(<<"hi">>)
      [] tok = "at= hi " -> J_str(<<SP, "hi", SP>>)
      [] tok = "at=" -> J_str(<<>>)
      [] tok = "at=null" -> J_null
      [] tok = "at=5" -> J_int
      [] tok = "ud=cats" -> J_str(<<"likes", SP, "cats">>)
      [] tok = "ud=" -> J_str(<<>>)
      [] tok = "ud=null" -> J_null
      [] tok = "ud=7" -> J_int

\* dict.get(key): the value of the last member with that key
DictGet(d, key) ==
    LET hits == {i \in 1..Len(d.m) : MemberKey(d.m[i]) = key}
    IN  IF hits = {} THEN J_absent
        ELSE MemberValue(d.m[CHOOSE i \in hits : \A j \in hits : j <= i])

\* Python's truth value of a JSON value (J_int is a non-zero number, J_list a
\* non-empty list)
Truthy(v) ==
    CASE v.t = "absent" -> FALSE
      [] v.t = "null" -> FALSE
      [] v.t = "str" -> v.s # <<>>
      [] v.t = "dict" -> v.m # <<>>
      [] OTHER -> TRUE

\* `(v or "").strip()`: raises AttributeError when v is truthy and not a string
OrEmptyStrip(v) ==
    IF ~Truthy(v) THEN [raised |-> "none", s |-> <<>>]
    ELSE IF v.t = "str" THEN [raised |-> "none", s |-> strip(v.s)]
    ELSE [raised |-> "AttributeError", s |-> <<>>]

\* json.dumps of an object
DumpDict(d) == <<"{">> \o d.m \o <<"}">>

\* json.loads(s): ok is FALSE when it raises
JsonLoads(s) ==
    LET body == SubSeq(s, 2, Len(s) - 1)
        inner == SelectSeq(body, LAMBDA tok : tok # SP)
    IN  IF s = <<"null">> THEN [ok |-> TRUE, v |-> J_null]
        ELSE IF s = <<"5">> THEN [ok |-> TRUE, v |-> J_int]
        ELSE IF s = <<"[1]">> THEN [ok |-> TRUE, v |-> J_list]
        ELSE IF /\ Len(s) >= 2 /\ s[1] = "{" /\ s[Len(s)] = "}"
                /\ \A i \in 1..Len(inner) : inner[i] \in Members
        THEN [ok |-> TRUE, v |-> J_dict(inner)]
        ELSE [ok |-> FALSE, v |-> J_null]

\* re.search(r"\{.*\}", s, flags=re.DOTALL): from the first "{" to the last "}"
BraceSpan(s) ==
    LET opens == {i \in 1..Len(s) : s[i] = "{"}
        closes == {i \in 1..Len(s) : s[i] = "}"}
        first == CHOOSE i \in opens : \A j \in opens : i <= j
        last == CHOOSE i \in closes : \A j \in closes : j <= i
    IN  IF opens = {} \/ closes = {} THEN [found |-> FALSE, s |-> <<>>]
        ELSE IF last < first THEN [found |-> FALSE, s |-> <<>>]
        ELSE [found |-> TRUE, s |-> SubSeq(s, first, last)]

\* _extract_json_object (the same in both clients): None is J_null
_extract_json_object(raw) ==
    LET s == strip(raw)
        whole == JsonLoads(s)
        span == BraceSpan(s)
    IN  IF s = <<>> THEN J_null
        ELSE IF whole.ok THEN whole.v
        ELSE IF ~span.found THEN J_null
        ELSE IF JsonLoads(span.s).ok THEN JsonLoads(span.s).v
        ELSE J_null

Placeholder == <<"(no", SP, "response", SP, "from", SP, "model)">>

\* What both clients return when nothing was raised
Returned(assistant_text, updated_user_description, posts) ==
    [raised |-> "none", assistant_text |-> assistant_text,
     updated_user_description |-> updated_user_description, posts |-> posts]

Raised(exc, posts) ==
    [raised |-> exc, assistant_text |-> <<>>, updated_user_description |-> <<>>,
     posts |-> posts]

\* The tail of both generate_contract functions, from the model's text on:
\* extraction, "Normalize keys" and the placeholder
Normalize(text, posts) ==
    LET parsed == _extract_json_object(text)
        at == OrEmptyStrip(DictGet(parsed, "assistant_text"))
        ud == OrEmptyStrip(DictGet(parsed, "updated_user_description"))
    IN  IF parsed.t # "dict"
        THEN Returned(IF text # <<>> THEN text ELSE Placeholder, <<>>, posts)
        ELSE IF at.raised # "none" THEN Raised(at.raised, posts)
        ELSE IF ud.raised # "none" THEN Raised(ud.raised, posts)
        ELSE Returned(IF at.s # <<>> THEN at.s ELSE Placeholder, ud.s, posts)

-----------------------------------------------------------------------------
(* Policy loader: core/config.py *)

MISSING == [exists |-> FALSE, s |-> <<>>]
RulesOnDisk == [exists |-> TRUE, s |-> <<"rules", SP>>]
NOT_LOADED == [loaded |-> FALSE, s |-> <<>>]

\* @lru_cache(maxsize=1) load_system_rules(): a raised SystemExit is not cached
load_system_rules(file, cache) ==
    IF cache.loaded THEN [raised |-> "none", value |-> cache.s, rules_cache |-> cache]
    ELSE IF file.exists
    THEN [raised |-> "none", value |-> strip(file.s),
          rules_cache |-> [loaded |-> TRUE, s |-> strip(file.s)]]
    ELSE [raised |-> "SystemExit", value |-> <<>>, rules_cache |-> cache]

-----------------------------------------------------------------------------
(* Contract clients: infra/llm *)

Lower(tok) ==
    CASE tok = "Model" -> "model"
      [] tok = "Not" -> "not"
      [] tok = "Found" -> "found"
      [] tok = "Schema" -> "schema"
      [] OTHER -> tok

\* str.lower()
lower(s) == [i \in 1..Len(s) |-> Lower(s[i])]

\* `sub in s`
Contains(s, sub) ==
    \E i \in 0..(Len(s) - Len(sub)) : SubSeq(s, i + 1, i + Len(sub)) = sub

StatusToken(code) ==
    CASE code = 200 -> "200" [] code = 404 -> "404" [] code = 500 -> "500"

\* ', '.join(names)
RECURSIVE JoinComma(_)
JoinComma(names) ==
    IF names = <<>> THEN <<>>
    ELSE IF Len(names) = 1 THEN <<names[1]>>
    ELSE <<names[1], ",", SP>> \o JoinComma(Tail(names))

OLLAMA_MODEL == "'llama3.2:3b'"

\* A plausible slip: only the first model of the list is reported
ListFirstModelOnly(tags) ==
    IF tags.ok /\ tags.names # <<>> THEN <<tags.names[1]>> ELSE <<>>

\* _list_models(): the names GET /api/tags gives, [] on any failure
_list_models(tags) == IF tags.ok THEN tags.names ELSE <<>>

\* ollama_client.generate_contract after the payload is built: b is what the
\* backend does ([post, status, body, error, response, text, tags])
OllamaRequest(b) ==
    LET err == IF b.body = "dict" /\ b.error.t = "str" THEN b.error.s ELSE b.text
        err_s == lower(err)
        models == _list_models(b.tags)
        text == OrEmptyStrip(b.response)
    IN  IF b.post = "exc"
        THEN Returned(<<"Ollama", SP, "connection", SP, "error:", SP, "refused">>, <<>>, 1)
        ELSE IF b.status >= 400
        THEN IF Contains(err_s, <<"model">>) /\ Contains(err_s, <<"not", SP, "found">>)
             THEN IF models # <<>>
                  THEN Returned(<<"Model", SP, OLLAMA_MODEL, SP, "not", SP, "found", ".",
                                  SP, "Available:", SP>> \o JoinComma(models), <<>>, 1)
                  ELSE Returned(<<"Model", SP, OLLAMA_MODEL, SP, "not", SP, "found", ".",
                                  SP, "(No", SP, "model", SP, "list", SP, "available.)">>,
                                <<>>, 1)
             ELSE Returned(<<"Ollama", SP, "error", SP, StatusToken(b.status), ":", SP>>
                           \o err, <<>>, 1)
        ELSE IF b.body = "nonjson"
        THEN Returned(<<"Ollama", SP, "returned", SP, "non-JSON", SP, "response:", SP>>
                      \o b.text, <<>>, 1)
        ELSE IF b.body # "dict" THEN Raised("AttributeError", 1)
        ELSE IF text.raised # "none" THEN Raised(text.raised, 1)
        ELSE Normalize(text.s, 1)

\* ollama_client.generate_contract: load_system_rules() is called while the
\* payload is built, outside every try
ollama_generate_contract(file, cache, b) ==
    LET rules == load_system_rules(file, cache)
    IN  IF rules.raised # "none"
        THEN [out |-> Raised(rules.raised, 0), rules_cache |-> rules.rules_cache]
        ELSE [out |-> OllamaRequest(b), rules_cache |-> rules.rules_cache]

\* A plausible slip: a rate-limit error is taken for a rejected schema
SchemaWordsAndRate == {"json_schema", "response_format", "schema", "strict", "rate"}

SchemaWords == {"json_schema", "response_format", "schema", "strict"}

\* _parse_choice_content(data): r is one HTTP response
\* ([post, status, body, text, shape, content, alt])
_parse_choice_content(r) ==
    CASE r.body # "dict" -> [raised |-> "AttributeError", s |-> <<>>]
      [] r.body = "dict" /\ r.shape = "no_choices" -> [raised |-> "none", s |-> <<>>]
      [] r.body = "dict" /\ r.shape = "choices_int" -> [raised |-> "TypeError", s |-> <<>>]
      [] r.body = "dict" /\ r.shape = "choice_str" -> [raised |-> "AttributeError", s |-> <<>>]
      [] r.body = "dict" /\ r.shape = "message_str" -> [raised |-> "AttributeError", s |-> <<>>]
      [] OTHER ->
            IF r.content.t = "str" THEN [raised |-> "none", s |-> strip(r.content.s)]
            ELSE IF r.content.t = "dict"
            THEN [raised |-> "none", s |-> DumpDict(r.content)]
            ELSE IF r.alt.t = "str" THEN [raised |-> "none", s |-> strip(r.alt.s)]
            ELSE [raised |-> "none", s |-> <<>>]

\* openai_compat_client.generate_contract from the first POST on: r1 answers
\* the strict-schema request, r2 the json_object request
OpenAIRequest(r1, r2) ==
    LET err_l == lower(r1.text)
        schema_rejected == \E i \in 1..Len(err_l) : err_l[i] \in SchemaWords
        retried == r1.post # "exc" /\ r1.status >= 400 /\ schema_rejected
        r == IF retried THEN r2 ELSE r1
        posts == IF retried THEN 2 ELSE 1
        content == _parse_choice_content(r)
    IN  IF r1.post = "exc"
        THEN Returned(<<"Remote", SP, "LLM", SP, "connection", SP, "error:", SP,
                        "refused">>, <<>>, 1)
        ELSE IF retried /\ r2.post = "exc"
        THEN Returned(<<"Remote", SP, "LLM", SP, "connection", SP, "error", SP,
                        "(retry):", SP, "refused">>, <<>>, 2)
        ELSE IF r.status >= 400
        THEN Returned(<<"Remote", SP, "LLM", SP, "error", SP, StatusToken(r.status),
                        ":", SP>> \o r.text, <<>>, posts)
        ELSE IF r.body = "nonjson"
        THEN Returned(<<"Remote", SP, "LLM", SP, "returned", SP, "non-JSON", SP,
                        "HTTP", SP, "body:", SP>> \o r.text, <<>>, posts)
        ELSE IF content.raised # "none" THEN Raised(content.raised, posts)
        ELSE Normalize(content.s, posts)

\* openai_compat_client.generate_contract: the key check comes first, and
\* load_system_rules() is called by _build_payload, outside every try
openai_generate_contract(key, file, cache, r1, r2) ==
    LET rules == load_system_rules(file, cache)
    IN  IF ~key
        THEN [out |-> Returned(<<"Missing", SP, "OPENAI_COMPAT_API_KEY">>, <<>>, 0),
              rules_cache |-> cache]
        ELSE IF rules.raised # "none"
        THEN [out |-> Raised(rules.raised, 0), rules_cache |-> rules.rules_cache]
        ELSE [out |-> OpenAIRequest(r1, r2), rules_cache |-> rules.rules_cache]

\* client_factory.generate_contract: b is what the configured backend does
\* ([ollama, r1, r2])
generate_contract(cfg, file, cache, b) ==
    IF cfg.LLM_BACKEND = "ollama" THEN ollama_generate_contract(file, cache, b.ollama)
    ELSE IF cfg.LLM_BACKEND = "openai_compat"
    THEN openai_generate_contract(cfg.OPENAI_COMPAT_API_KEY, file, cache, b.r1, b.r2)
    ELSE [out |-> Returned(<<"Unknown", SP, "LLM_BACKEND">>, <<>>, 0),
          rules_cache |-> cache]

-----------------------------------------------------------------------------
(* Request builders: app/graph.py _build_prompt and app/prompting.py         *)
(* build_prompt.  A prompt is a text; a section heading is "###" and words.  *)

max_chars == 18000      \* build_prompt's default max_chars
LONG == "LONG"          \* a run of max_chars non-whitespace characters
CUT == "CUT"            \* what the hard trim leaves of the token it cuts

\* len() of a token and of a text, in characters
CharLen(tok) ==
    IF tok \in Whitespace THEN 1 ELSE IF tok = LONG THEN max_chars ELSE Len(tok)

RECURSIVE TextLen(_)
TextLen(s) == IF s = <<>> THEN 0 ELSE CharLen(Head(s)) + TextLen(Tail(s))

\* sep.join(parts)
RECURSIVE Join(_, _)
Join(parts, sep) ==
    IF parts = <<>> THEN <<>>
    ELSE IF Len(parts) = 1 THEN parts[1]
    ELSE parts[1] \o sep \o Join(Tail(parts), sep)

\* if len(prompt) > max_chars: prompt = prompt[-max_chars:]
RECURSIVE HardTrim(_)
HardTrim(prompt) ==
    IF TextLen(prompt) <= max_chars THEN prompt
    ELSE IF TextLen(Tail(prompt)) >= max_chars THEN HardTrim(Tail(prompt))
    ELSE <<CUT>> \o Tail(prompt)

\* The for loop over history of both builders: a turn whose user or
\* assistant text is empty after strip() is skipped (`continue`)
RECURSIVE hist_lines(_)
hist_lines(history) ==
    IF history = <<>> THEN <<>>
    ELSE LET u == strip(Head(history).user)
             a == strip(Head(history).assistant)
         IN  IF u = <<>> \/ a = <<>> THEN hist_lines(Tail(history))
             ELSE <<<<"User:", SP>> \o u \o <<NL, "Assistant:", SP>> \o a>>
                  \o hist_lines(Tail(history))

\* The for loop over memory of build_prompt: empty items are skipped
RECURSIVE mem_lines(_)
mem_lines(memory) ==
    IF memory = <<>> THEN <<>>
    ELSE LET c == strip(Head(memory).content)
         IN  IF c = <<>> THEN mem_lines(Tail(memory))
             ELSE <<<<"-", SP, "[", Head(memory).kind, "]", SP>> \o c>>
                  \o mem_lines(Tail(memory))

CoreSection(core_behavior) ==
    IF strip(core_behavior) = <<>> THEN <<>>
    ELSE <<<<"###", SP, "CORE", SP, "BEHAVIOR", NL>> \o strip(core_behavior)>>

ContextSection(ctx) ==
    <<"###", SP, "CHAT", SP, "CONTEXT", NL,
      "-", SP, "chat_id:", SP, ctx.chat_id, NL,
      "-", SP, "chat_type:", SP, ctx.chat_type, NL,
      "-", SP, "user_name:", SP, ctx.user_name, NL>>

HistorySection(history) ==
    IF hist_lines(history) = <<>> THEN <<>>
    ELSE <<<<"###", SP, "CONVERSATION", SP, "SO", SP, "FAR", NL>>
           \o Join(hist_lines(history), <<NL, NL>>)>>

NewMessageSection(user_text) ==
    <<"###", SP, "NEW", SP, "MESSAGE", NL, "User:", SP>> \o strip(user_text)
    \o <<NL, "Assistant:">>

\* graph.py _build_prompt(state, core_behavior, history): it takes no profile
\* ("DB 'memory' is intentionally not included yet")
_build_prompt(state, core_behavior, history) ==
    strip(Join(CoreSection(core_behavior) \o <<ContextSection(state)>>
               \o HistorySection(history) \o <<NewMessageSection(state.user_text)>>,
               <<NL, NL>>))

\* prompting.py build_prompt(chat, user_text, core_behavior, memory, history)
build_prompt(ctx, user_text, core_behavior, memory, history) ==
    LET context == ContextSection(ctx)
                   \o (IF ctx.user_id # NULL_ID THEN <<"-", SP, "user_id:", SP, "1", NL>>
                       ELSE <<>>)
                   \o (IF ctx.locale # <<>> THEN <<"-", SP, "locale:", SP>> \o ctx.locale
                                                \o <<NL>>
                       ELSE <<>>)
        mem == IF mem_lines(memory) = <<>> THEN <<>>
               ELSE <<<<"###", SP, "MEMORY", NL>> \o Join(mem_lines(memory), <<NL>>)>>
    IN  HardTrim(strip(Join(CoreSection(core_behavior) \o <<context>> \o mem
                            \o HistorySection(history)
                            \o <<NewMessageSection(user_text)>>, <<NL, NL>>)))

-----------------------------------------------------------------------------
(* What a backend can do *)

\* Texts a model can produce: nothing, prose, a JSON value that is no object,
\* an object with any choice of the two keys, an object inside prose, and
\* braces that hold no JSON
ObjectTexts ==
    {<<"{">> \o at \o ud \o <<"}">> :
        at \in {<<>>} \cup {<<a>> : a \in AtMembers},
        ud \in {<<>>} \cup {<<SP, u>> : u \in UdMembers}}

\* A valid contract object (both keys, both strings, a non-blank
\* assistant_text) alone or inside prose; the prose can hold a brace
ContractObjects ==
    {[text |-> <<"{", a, SP, u, "}">>, at |-> MemberValue(a).s, ud |-> MemberValue(u).s] :
        a \in {"at=hi", "at= hi "}, u \in {"ud=cats", "ud="}}

ProseBefore == {<<>>, <<"Sure!", SP>>, <<"see", SP, "{", SP>>}
ProseAfter == {<<>>, <<SP, "Bye">>, <<SP, ":-", "}">>}

ContractInProse ==
    {[text |-> pre \o o.text \o post, at |-> o.at, ud |-> o.ud,
      braces |-> "{" \in {pre[i] : i \in 1..Len(pre)}
                 \/ "}" \in {post[i] : i \in 1..Len(post)}] :
        pre \in ProseBefore, o \in ContractObjects, post \in ProseAfter}

ModelTexts ==
    ObjectTexts \cup {c.text : c \in ContractInProse} \cup
    {<<>>, <<SP>>, <<"hello", SP>>, <<"[1]">>, <<"5">>, <<"null">>,
     <<"Sure!", SP, "{", "at=hi", "ud=cats", "}">>,
     <<"{", "at=hi", "ud=", "}", SP, "Bye">>,
     <<"Sure!", SP, "{", "at=5", "}", SP, "Bye">>,
     <<"{", "at=hi", "}", SP, "or", SP, "{", "at=", "}">>,
     <<"{", "oops">>, <<"}", "at=hi", "{">>}

ErrorTexts ==
    {<<"model", SP, "'x'", SP, "not", SP, "found">>,
     <<"Model", SP, "Not", SP, "Found">>, <<"boom">>, <<>>}

TagsAnswers ==
    {[ok |-> FALSE, names |-> <<>>], [ok |-> TRUE, names |-> <<>>],
     [ok |-> TRUE, names |-> <<"a", "b">>]}

NoTags == [ok |-> FALSE, names |-> <<>>]

OllamaAnswer(post, status, body, error, response, text, tags) ==
    [post |-> post, status |-> status, body |-> body, error |-> error,
     response |-> response, text |-> text, tags |-> tags]

OllamaBehaviours ==
    {OllamaAnswer("exc", 200, "nonjson", J_absent, J_absent, <<>>, NoTags)}
    \cup {OllamaAnswer("resp", st, "dict", J_str(e), J_absent, <<"{...}">>, tg) :
            st \in {404, 500}, e \in ErrorTexts, tg \in TagsAnswers}
    \cup {OllamaAnswer("resp", st, bd, J_absent, J_absent, tx, tg) :
            st \in {404, 500}, bd \in {"nonjson", "list", "dict"},
            tx \in ErrorTexts, tg \in TagsAnswers}
    \cup {OllamaAnswer("resp", 200, bd, J_absent, J_absent, <<"<html>">>, NoTags) :
            bd \in {"nonjson", "list"}}
    \cup {OllamaAnswer("resp", 200, "dict", J_absent, rs, <<"{...}">>, NoTags) :
            rs \in {J_absent, J_null, J_int, J_list} \cup {J_str(t) : t \in ModelTexts}}

OpenAIAnswer(post, status, body, text, shape, content, alt) ==
    [post |-> post, status |-> status, body |-> body, text |-> text,
     shape |-> shape, content |-> content, alt |-> alt]

OpenAIErrorTexts ==
    {<<"unsupported", SP, "response_format">>, <<"Schema", SP, "rejected">>,
     <<"rate", SP, "limit">>, <<>>}

OpenAIAnswers ==
    {OpenAIAnswer("exc", 200, "nonjson", <<>>, "choices", J_absent, J_absent)}
    \cup {OpenAIAnswer("resp", st, bd, tx, "choices", J_absent, J_absent) :
            st \in {404, 500}, bd \in {"nonjson", "dict"}, tx \in OpenAIErrorTexts}
    \cup {OpenAIAnswer("resp", 200, bd, <<"<html>">>, "choices", J_absent, J_absent) :
            bd \in {"nonjson", "list"}}
    \cup {OpenAIAnswer("resp", 200, "dict", <<"{...}">>, sh, J_absent, J_absent) :
            sh \in {"no_choices", "choices_int", "choice_str", "message_str"}}
    \cup {OpenAIAnswer("resp", 200, "dict", <<"{...}">>, "choices", ct, J_absent) :
            ct \in {J_str(t) : t \in ModelTexts}
                   \cup {J_dict(<<"at=hi", "ud=cats">>), J_dict(<<"at=5">>), J_dict(<<>>)}}
    \cup {OpenAIAnswer("resp", 200, "dict", <<"{...}">>, "choices", ct, al) :
            ct \in {J_absent, J_null, J_int},
            al \in {J_absent, J_int, J_str(<<SP, "hello">>), J_str(<<"{", "at=hi", "}">>)}}

\* Whether the first answer makes the client send its second request
AsksRetry(r1) ==
    /\ r1.post = "resp" /\ r1.status >= 400
    /\ \E i \in 1..Len(r1.text) : Lower(r1.text[i]) \in SchemaWords

NoAnswer == OpenAIAnswer("exc", 200, "nonjson", <<>>, "choices", J_absent, J_absent)
NoOllama == OllamaAnswer("exc", 200, "nonjson", J_absent, J_absent, <<>>, NoTags)

\* A behaviour of the backends for one generate_contract call
Behaviour(o, r1, r2) == [ollama |-> o, r1 |-> r1, r2 |-> r2]

BehavioursOf(backend) ==
    IF backend = "ollama"
    THEN {Behaviour(o, NoAnswer, NoAnswer) : o \in OllamaBehaviours}
    ELSE IF backend = "openai_compat"
    THEN {Behaviour(NoOllama, r1, NoAnswer) : r1 \in {r \in OpenAIAnswers : ~AsksRetry(r)}}
         \cup {Behaviour(NoOllama, r1, r2) :
                 r1 \in {r \in OpenAIAnswers : AsksRetry(r)}, r2 \in OpenAIAnswers}
    ELSE {Behaviour(NoOllama, NoAnswer, NoAnswer)}

\* The configurations the process can be started with (LLM_BACKEND after
\* .strip().lower(); BOT_TOKEN and OPENAI_COMPAT_API_KEY: whether set)
Configs ==
    {[BOT_TOKEN |-> tk, LLM_BACKEND |-> be, OPENAI_COMPAT_API_KEY |-> key] :
        tk \in BOOLEAN, be \in {"ollama", "openai_compat", "groq"}, key \in BOOLEAN}

-----------------------------------------------------------------------------
(* Values the variables start from *)

Chats == {1, 2}
Users == {1}

DefaultSettings ==
    [BOT_TOKEN |-> TRUE, LLM_BACKEND |-> "ollama", OPENAI_COMPAT_API_KEY |-> FALSE]

NotFetched == [called |-> FALSE, chat_id |-> 0, limit_turns |-> 0, turns |-> <<>>]

NoUpdate == [update_id |-> 0, chat_id |-> 0, user_id |-> 0, text |-> <<>>]

IdleHandler ==
    [pc |-> "idle", update |-> NoUpdate, reply |-> <<>>, new_desc |-> <<>>,
     sent |-> <<>>, expected |-> <<>>, desc_before |-> NO_ROW,
     failed |-> {}, wrote |-> {}, early |-> {}]

NoCall == [called |-> FALSE, behaviour |-> Behaviour(NoOllama, NoAnswer, NoAnswer),
           out |-> Returned(<<>>, <<>>, 0)]

\* No load_system_rules call made yet.  Per caller: where its call stands,
\* whether it found the cache empty, whether it began after a call had
\* returned a text, and what it read and returned.  first: the text the
\* first call to return gave
IdleLoad ==
    [pc |-> "idle", miss |-> FALSE, after_first |-> FALSE, raised |-> "none",
     value |-> <<>>]

NoLoads ==
    [call |-> [c \in {1, 2} |-> IdleLoad], first |-> NOT_LOADED]

\* No on_message runs side by side yet.  Per run its handler locals, and
\* the ids of the rows its two appends made (0: none)
Runs == {1, 2}

NoRuns ==
    [h |-> [r \in Runs |-> IdleHandler],
     user_row |-> [r \in Runs |-> 0], answer_row |-> [r \in Runs |-> 0]]

\* No request built yet
NotBuilt ==
    [called |-> FALSE, history |-> <<>>, user_text |-> <<>>, profile |-> <<>>,
     graph_prompt |-> <<>>, prompt |-> <<>>]

\* No profile call made yet.  seen: the user ids the store was called with;
\* last: per user id, the text of its last update_user_description that
\* returned
NoProfileCall ==
    [op |-> "none", uid |-> 0, raised |-> FALSE, value |-> <<>>,
     never_seen |-> FALSE, again |-> FALSE, seen |-> {},
     last |-> [u \in {1, 2} |-> [set |-> FALSE, s |-> <<>>]]]

-----------------------------------------------------------------------------
(* fetch_recent_events over event logs: the log starts as a seed log that     *)
(* insert_message calls can have built, grows by further insert_message       *)
(* calls, and is then read once.                                              *)

UserRow(chat_id) == Row(NULL_ID, chat_id, 1, ROLE_USER, SqlText(<<"hi">>))
AssistantRow(chat_id) == Row(NULL_ID, chat_id, NULL_ID, ROLE_ASSISTANT, SqlText(<<"yo">>))

\* One answered message followed by k messages whose answer was never stored
TurnThenBacklog(k) ==
    <<UserRow(1), AssistantRow(1)>> \o [i \in 1..k |-> UserRow(1)]

\* ... and the same with the last of them answered
SeedLogs ==
    {<<>>} \cup {TurnThenBacklog(k) : k \in 0..MaxBacklog}
           \cup {TurnThenBacklog(k) \o <<AssistantRow(1)>> : k \in 1..MaxBacklog}

\* The role and text of the rows that are inserted after the seed
FetchEvents ==
    {[role |-> ROLE_USER, text |-> SqlText(<<SP, "hi", SP>>)],
     [role |-> ROLE_ASSISTANT, text |-> SqlText(<<"yo", SP>>)],
     [role |-> ROLE_ASSISTANT, text |-> NULL_TEXT],
     [role |-> <<SP, "user", SP>>, text |-> NULL_TEXT],
     [role |-> <<"system">>, text |-> SqlText(<<"hi">>)]}

FetchInit ==
    /\ settings = DefaultSettings
    /\ rules_file = RulesOnDisk
    /\ rules_cache = NOT_LOADED
    /\ proc = "polling"
    /\ chat = Chats
    /\ telegram_user = Users
    /\ message \in SeedLogs
    /\ user_state = [u \in Users |-> NO_ROW]
    /\ h = IdleHandler
    /\ handled = 0
    /\ fetched = NotFetched
    /\ client = NoCall
    /\ profile_op = NoProfileCall
    /\ built = NotBuilt
    /\ loads = NoLoads
    /\ runs = NoRuns

\* insert_message(...) with any chat, role and text
FetchInsert ==
    /\ ~fetched.called
    /\ \E seed \in SeedLogs :
          /\ Len(seed) <= Len(message)
          /\ SubSeq(message, 1, Len(seed)) = seed
          /\ Len(message) < Len(seed) + MaxAppend
    /\ \E up \in BOOLEAN, c \in Chats, e \in FetchEvents :
          message' = insert_message(up, chat, telegram_user, message,
                                    Row(NULL_ID, c, NULL_ID, e.role, e.text)).message
    /\ UNCHANGED <<settings, rules_file, rules_cache, proc, chat, telegram_user,
                   user_state, h, handled, fetched, client, profile_op,
                   built, loads, runs>>

\* fetch_recent_events(chat_telegram_id, limit_turns)
FetchCall ==
    /\ ~fetched.called
    /\ \E c \in Chats, n \in 0..MaxLimit :
          fetched' = [called |-> TRUE, chat_id |-> c, limit_turns |-> n,
                      turns |-> fetch_recent_events(message, c, n)]
    /\ UNCHANGED <<settings, rules_file, rules_cache, proc, chat, telegram_user,
                   message, user_state, h, handled, client, profile_op,
                   built, loads, runs>>

FetchNext == FetchInsert \/ FetchCall

FetchSpec == FetchInit /\ [][FetchNext]_vars

-----------------------------------------------------------------------------
(* generate_contract over configurations, policy files and backend          *)
(* behaviours: one call per behaviour, the policy cache kept between calls.  *)

ClientInit ==
    /\ settings \in {c \in Configs : c.BOT_TOKEN}
    /\ rules_file \in {MISSING, RulesOnDisk}
    /\ rules_cache = NOT_LOADED
    /\ proc = "polling"
    /\ chat = {}
    /\ telegram_user = {}
    /\ message = <<>>
    /\ user_state = [u \in Users |-> NO_ROW]
    /\ h = IdleHandler
    /\ handled = 0
    /\ fetched = NotFetched
    /\ client = NoCall
    /\ profile_op = NoProfileCall
    /\ built = NotBuilt
    /\ loads = NoLoads
    /\ runs = NoRuns

\* generate_contract(request_obj) through the factory
ClientCall ==
    /\ \E b \in BehavioursOf(settings.LLM_BACKEND) :
          LET res == generate_contract(settings, rules_file, rules_cache, b)
          IN  /\ client' = [called |-> TRUE, behaviour |-> b, out |-> res.out]
              /\ rules_cache' = res.rules_cache
    /\ UNCHANGED <<settings, rules_file, proc, chat, telegram_user, message,
                   user_state, h, handled, fetched, profile_op, built, loads,
                   runs>>

ClientNext == ClientCall

ClientSpec == ClientInit /\ [][ClientNext]_vars

-----------------------------------------------------------------------------
(* The profile functions of the store, called directly on a database that   *)
(* init_db() has just created: any user id, in any order, with or without   *)
(* the user's telegram_user row.  SQLite carries every statement out.        *)

ProfileUsers == {1, 2}
ProfileTexts == {<<"likes", SP, "cats">>, <<SP, "dogs", SP>>}

ProfileInit ==
    /\ settings = DefaultSettings
    /\ rules_file = RulesOnDisk
    /\ rules_cache = NOT_LOADED
    /\ proc = "polling"
    /\ chat = {}
    /\ telegram_user = {}
    /\ message = <<>>
    /\ user_state = [u \in ProfileUsers |-> NO_ROW]
    /\ h = IdleHandler
    /\ handled = 0
    /\ fetched = NotFetched
    /\ client = NoCall
    /\ profile_op = NoProfileCall
    /\ built = NotBuilt
    /\ loads = NoLoads
    /\ runs = NoRuns

\* upsert_telegram_user(telegram_user_id=u, ...)
ProfileUpsertUser ==
    /\ \E u \in ProfileUsers :
          /\ telegram_user' = upsert_telegram_user(TRUE, telegram_user, u).telegram_user
          /\ profile_op' = [profile_op EXCEPT !.op = "upsert", !.uid = u, !.raised = FALSE,
                                        !.value = <<>>, !.never_seen = FALSE,
                                        !.again = FALSE, !.seen = @ \cup {u}]
    /\ UNCHANGED <<settings, rules_file, rules_cache, proc, chat, message,
                   user_state, h, handled, fetched, client, built, loads,
                   runs>>

\* get_user_description(u)
ProfileGet ==
    /\ \E u \in ProfileUsers :
          LET r == get_user_description(TRUE, telegram_user, user_state, u)
          IN  /\ user_state' = r.user_state
              /\ profile_op' = [profile_op EXCEPT
                    !.op = "get", !.uid = u, !.raised = r.raised, !.value = r.value,
                    !.never_seen = u \notin profile_op.seen,
                    !.again = /\ profile_op.op = "get" /\ profile_op.uid = u
                              /\ (profile_op.never_seen \/ profile_op.again),
                    !.seen = @ \cup {u}]
    /\ UNCHANGED <<settings, rules_file, rules_cache, proc, chat, telegram_user,
                   message, h, handled, fetched, client, built, loads, runs>>

\* update_user_description(u, t)
ProfileSet ==
    /\ \E u \in ProfileUsers, t \in ProfileTexts :
          LET r == update_user_description(TRUE, telegram_user, user_state, u, t)
          IN  /\ user_state' = r.user_state
              /\ profile_op' = [profile_op EXCEPT
                    !.op = "set", !.uid = u, !.raised = r.raised, !.value = <<>>,
                    !.never_seen = u \notin profile_op.seen, !.again = FALSE,
                    !.seen = @ \cup {u},
                    !.last[u] = IF r.raised THEN @ ELSE [set |-> TRUE, s |-> t]]
    /\ UNCHANGED <<settings, rules_file, rules_cache, proc, chat, telegram_user,
                   message, h, handled, fetched, client, built, loads, runs>>

ProfileNext == ProfileUpsertUser \/ ProfileGet \/ ProfileSet

ProfileSpec == ProfileInit /\ [][ProfileNext]_vars

-----------------------------------------------------------------------------
(* The request builders over the turns the store can return (texts after    *)
(* strip(), possibly empty), profile texts, and new messages.                *)

MaxHistory == 2         \* longest history handed to a builder

BuildTurns ==
    {[user |-> <<"morning">>, assistant |-> <<"hello!">>],
     [user |-> <<"what's", SP, "2+2">>, assistant |-> <<"4">>],
     [user |-> <<>>, assistant |-> <<"pardon?">>],
     [user |-> <<"bye">>, assistant |-> <<>>]}

Histories ==
    UNION {[1..n -> BuildTurns] : n \in 0..MaxHistory}

BuildProfiles ==
    {<<>>, <<"likes", SP, "cats">>, <<SP, "likes", SP, "dogs", NL>>, <<LONG>>}

BuildMessages == {<<"thanks">>, <<SP, "thanks", SP>>}

BuildContext ==
    [chat_id |-> "7", chat_type |-> "private", user_name |-> "ann",
     user_id |-> 1, locale |-> <<>>]

BuildInit ==
    /\ settings = DefaultSettings
    /\ rules_file = RulesOnDisk
    /\ rules_cache = NOT_LOADED
    /\ proc = "polling"
    /\ chat = {}
    /\ telegram_user = {}
    /\ message = <<>>
    /\ user_state = [u \in Users |-> NO_ROW]
    /\ h = IdleHandler
    /\ handled = 0
    /\ fetched = NotFetched
    /\ client = NoCall
    /\ profile_op = NoProfileCall
    /\ built = NotBuilt
    /\ loads = NoLoads
    /\ runs = NoRuns

\* Both builders applied to one turn's inputs; build_prompt gets the profile
\* as its one memory item
BuildCall ==
    /\ ~built.called
    /\ \E hist \in Histories, msg \in BuildMessages, prof \in BuildProfiles,
          core \in {<<>>, RulesOnDisk.s} :
          built' = [called |-> TRUE, history |-> hist, user_text |-> msg,
                    profile |-> prof,
                    graph_prompt |->
                        _build_prompt([BuildContext EXCEPT !.user_id = NULL_ID]
                                          @@ [user_text |-> msg], core, hist),
                    prompt |->
                        build_prompt(BuildContext, msg, core,
                                     <<[kind |-> "profile", content |-> prof]>>, hist)]
    /\ UNCHANGED <<settings, rules_file, rules_cache, proc, chat, telegram_user,
                   message, user_state, h, handled, fetched, client, profile_op,
                   loads, runs>>

BuildNext == BuildCall

BuildSpec == BuildInit /\ [][BuildNext]_vars

-----------------------------------------------------------------------------
(* load_system_rules called by two threads while the policy file is edited.  *)
(* functools.lru_cache takes no lock around the wrapped function: a call     *)
(* looks the cache up, on a miss runs the function (path.read_text()), then  *)
(* stores the result unless the key was stored meanwhile, and returns the    *)
(* result of its own run.                                                    *)

Callers == {1, 2}
RulesEdited == [exists |-> TRUE, s |-> <<"rules", SP, "v2">>]

LoadInit ==
    /\ settings = DefaultSettings
    /\ rules_file \in {MISSING, RulesOnDisk}
    /\ rules_cache = NOT_LOADED
    /\ proc = "polling"
    /\ chat = {}
    /\ telegram_user = {}
    /\ message = <<>>
    /\ user_state = [u \in Users |-> NO_ROW]
    /\ h = IdleHandler
    /\ handled = 0
    /\ fetched = NotFetched
    /\ client = NoCall
    /\ profile_op = NoProfileCall
    /\ built = NotBuilt
    /\ loads = NoLoads
    /\ runs = NoRuns

\* The policy file is written, replaced or removed
FileChange ==
    /\ rules_file' \in {MISSING, RulesOnDisk, RulesEdited} \ {rules_file}
    /\ UNCHANGED <<settings, rules_cache, proc, chat, telegram_user, message,
                   user_state, h, handled, fetched, client, profile_op, built, loads,
                   runs>>

\* A caller enters load_system_rules(): the cache lookup
LoadStart ==
    /\ \E c \in Callers :
          /\ loads.call[c].pc = "idle"
          /\ loads' = [loads EXCEPT !.call[c] =
                IF rules_cache.loaded
                THEN [pc |-> "done", miss |-> FALSE, after_first |-> loads.first.loaded,
                      raised |-> "none",
                      value |-> load_system_rules(rules_file, rules_cache).value]
                ELSE [pc |-> "miss", miss |-> TRUE, after_first |-> loads.first.loaded,
                      raised |-> "none", value |-> <<>>]]
    /\ UNCHANGED <<settings, rules_file, rules_cache, proc, chat, telegram_user,
                   message, user_state, h, handled, fetched, client, profile_op, built,
                   runs>>

\* After a miss: path.read_text(...).strip(), or SystemExit
LoadRead ==
    /\ \E c \in Callers :
          /\ loads.call[c].pc = "miss"
          /\ LET r == load_system_rules(rules_file, NOT_LOADED)
             IN  loads' = [loads EXCEPT !.call[c] =
                    [@ EXCEPT !.pc = IF r.raised = "none" THEN "read" ELSE "done",
                              !.raised = r.raised, !.value = r.value]]
    /\ UNCHANGED <<settings, rules_file, rules_cache, proc, chat, telegram_user,
                   message, user_state, h, handled, fetched, client, profile_op, built,
                   runs>>

\* The function returned: the result is stored unless another call stored
\* one meanwhile, and the call returns its own result
LoadReturn ==
    /\ \E c \in Callers :
          /\ loads.call[c].pc = "read"
          /\ rules_cache' = IF rules_cache.loaded THEN rules_cache
                            ELSE [loaded |-> TRUE, s |-> loads.call[c].value]
          /\ loads' = [loads EXCEPT
                !.call[c].pc = "done",
                !.first = IF @.loaded THEN @
                          ELSE [loaded |-> TRUE, s |-> loads.call[c].value]]
    /\ UNCHANGED <<settings, rules_file, proc, chat, telegram_user, message,
                   user_state, h, handled, fetched, client, profile_op, built,
                   runs>>

\* The caller goes on and may call again
LoadDone ==
    /\ \E c \in Callers :
          /\ loads.call[c].pc = "done"
          /\ loads' = [loads EXCEPT !.call[c] = IdleLoad]
    /\ UNCHANGED <<settings, rules_file, rules_cache, proc, chat, telegram_user,
                   message, user_state, h, handled, fetched, client, profile_op, built,
                   runs>>

LoadNext == FileChange \/ LoadStart \/ LoadRead \/ LoadReturn \/ LoadDone

LoadSpec == LoadInit /\ [][LoadNext]_vars

-----------------------------------------------------------------------------
(* Pipeline orchestrator: app/graph.py, llm_node.  The steps are those of    *)
(* the pipeline contract: read the policy text, read the profile (creating   *)
(* an empty row if none exists), read the recent turns, build the request,   *)
(* invoke the contract client, return its response.  Nothing is caught here. *)
(* (app/graph.py as it stands imports load_core_behavior, chat and           *)
(* fetch_recent_turns, which core/config.py, infra/llm/ollama_client.py and  *)
(* infra/db/sqlite.py do not define; its llm_node has the same shape: the    *)
(* reads and the model call in sequence, with no try around any of them.)    *)

\* up_profile, up_turns: whether SQLite can carry out each read; b: what the
\* backend does.  raised: "none" | "SystemExit" | the name of an Exception
llm_node(cfg, file, cache, users, us, tbl, upd, up_profile, up_turns, b) ==
    LET rules == load_system_rules(file, cache)
        profile == get_user_description(up_profile, users, us, upd.user_id)
        turns == fetch_recent_events(tbl, upd.chat_id, HISTORY_LIMIT)
        res == generate_contract(cfg, file, rules.rules_cache, b)
        bare == [raised |-> "none", assistant_text |-> <<>>,
                 updated_user_description |-> <<>>, turns |-> <<>>,
                 user_state |-> us, rules_cache |-> cache]
    IN  IF rules.raised # "none"
        THEN [bare EXCEPT !.raised = rules.raised]
        ELSE IF profile.raised
        THEN [bare EXCEPT !.raised = "sqlite3.Error", !.rules_cache = rules.rules_cache]
        ELSE IF ~up_turns
        THEN [bare EXCEPT !.raised = "sqlite3.Error", !.rules_cache = rules.rules_cache,
                          !.user_state = profile.user_state]
        ELSE [raised |-> res.out.raised,
              assistant_text |-> res.out.assistant_text,
              updated_user_description |-> res.out.updated_user_description,
              turns |-> turns,
              user_state |-> profile.user_state,
              rules_cache |-> res.rules_cache]

-----------------------------------------------------------------------------
(* Telegram adapter: adapters/telegram/bot.py, and __main__.py *)

InternalError == <<"Sorry,", SP, "internal", SP, "error.">>
NoResponse == <<"(no", SP, "response)">>

\* The backend behaviours on_message is explored with: for each strategy a
\* diagnostic answer, contract answers with and without a profile update,
\* and an answer that makes the client raise
PipelineBehaviours(backend) ==
    IF backend = "ollama"
    THEN {Behaviour(o, NoAnswer, NoAnswer) :
            o \in {OllamaAnswer("exc", 200, "nonjson", J_absent, J_absent, <<>>, NoTags),
                   OllamaAnswer("resp", 200, "dict", J_absent,
                                J_str(<<"{", "at=hi", SP, "ud=cats", "}">>), <<"{...}">>, NoTags),
                   OllamaAnswer("resp", 200, "dict", J_absent,
                                J_str(<<"{", "at= hi ", "}">>), <<"{...}">>, NoTags),
                   OllamaAnswer("resp", 200, "dict", J_absent, J_int, <<"{...}">>, NoTags)}}
    ELSE IF backend = "openai_compat"
    THEN {Behaviour(NoOllama,
                    OpenAIAnswer("resp", 200, "dict", <<"{...}">>, "choices",
                                 J_str(<<"{", "at=hi", SP, "ud=cats", "}">>), J_absent),
                    NoAnswer),
          Behaviour(NoOllama,
                    OpenAIAnswer("resp", 404, "dict", <<"unsupported", SP, "response_format">>,
                                 "choices", J_absent, J_absent),
                    OpenAIAnswer("resp", 200, "dict", <<"{...}">>, "choices",
                                 J_str(<<"{", "at= hi ", "}">>), J_absent)),
          Behaviour(NoOllama,
                    OpenAIAnswer("resp", 200, "dict", <<"{...}">>, "choice_str",
                                 J_absent, J_absent),
                    NoAnswer)}
    ELSE {Behaviour(NoOllama, NoAnswer, NoAnswer)}

\* Step 2 of on_message, the try around _app_graph.invoke: reply and new_desc
\* from what the graph returned, or the fallback when it raised an Exception.
\* (SystemExit is no Exception: it is not caught here.)
ReplyOf(out) ==
    IF out.raised = "none"
    THEN [reply |-> IF strip(out.assistant_text) # <<>>
                    THEN strip(out.assistant_text) ELSE NoResponse,
          new_desc |-> strip(out.updated_user_description)]
    ELSE [reply |-> InternalError, new_desc |-> <<>>]

\* A plausible slip: a store error in steps 0, 1, 4 or 5 ends the handler
StoreErrorAborts(hr, step, raised, next) ==
    [hr EXCEPT !.pc = IF raised THEN "done" ELSE next,
               !.failed = IF raised THEN @ \cup {step} ELSE @,
               !.wrote = @ \cup {step},
               !.early = IF hr.sent = <<>> THEN @ \cup {step} ELSE @]

\* The try/except around a store call in steps 0, 1, 4 and 5: the error is
\* logged and the handler goes on.  (failed, wrote and early only record what
\* happened: which calls raised, which were made, which before the reply.)
StoreCallDone(hr, step, raised, next) ==
    [hr EXCEPT !.pc = next,
               !.failed = IF raised THEN @ \cup {step} ELSE @,
               !.wrote = @ \cup {step},
               !.early = IF hr.sent = <<>> THEN @ \cup {step} ELSE @]

\* A plausible slip: the assistant event is stored before the reply is sent
StepAfterSwapped(pc) ==
    CASE pc = "upsert" -> "insert_user"
      [] pc = "insert_user" -> "graph"
      [] pc = "graph" -> "insert_assistant"
      [] pc = "insert_assistant" -> "reply"
      [] pc = "reply" -> "update_desc"
      [] pc = "update_desc" -> "done"

\* The order of the steps of on_message
StepAfter(pc) ==
    CASE pc = "upsert" -> "insert_user"
      [] pc = "insert_user" -> "graph"
      [] pc = "graph" -> "reply"
      [] pc = "reply" -> "insert_assistant"
      [] pc = "insert_assistant" -> "update_desc"
      [] pc = "update_desc" -> "done"

ProfileText(v) == IF v = NO_ROW THEN <<>> ELSE v.s

UpdateChats == {1}
UpdateTexts == {<<"hi">>}

Init ==
    /\ settings \in Configs
    /\ rules_file \in {MISSING, RulesOnDisk}
    /\ rules_cache = NOT_LOADED
    /\ proc = "boot"
    /\ chat = {}
    /\ telegram_user = {}
    /\ message = <<>>
    /\ user_state = [u \in Users |-> NO_ROW]
    /\ h = IdleHandler
    /\ handled = 0
    /\ fetched = NotFetched
    /\ client = NoCall
    /\ profile_op = NoProfileCall
    /\ built = NotBuilt
    /\ loads = NoLoads
    /\ runs = NoRuns

\* main(): init_db(), then run_bot(): require_bot_token() and polling
main ==
    /\ proc = "boot"
    /\ proc' = IF settings.BOT_TOKEN THEN "polling" ELSE "exited"
    /\ UNCHANGED <<settings, rules_file, rules_cache, chat, telegram_user, message,
                   user_state, h, handled, fetched, client, profile_op,
                   built, loads, runs>>

\* An update with text reaches on_message and passes its guard
on_message_start ==
    /\ proc = "polling" /\ h.pc = "idle" /\ handled < MaxUpdates
    /\ \E uid \in 1..MaxUpdateId, c \in UpdateChats, u \in Users, t \in UpdateTexts :
          h' = [IdleHandler EXCEPT
                  !.pc = "upsert",
                  !.update = [update_id |-> uid, chat_id |-> c, user_id |-> u, text |-> t],
                  !.desc_before = user_state[u]]
    /\ handled' = handled + 1
    /\ UNCHANGED <<settings, rules_file, rules_cache, proc, chat, telegram_user,
                   message, user_state, fetched, client, profile_op, built,
                   loads, runs>>

\* An update without a user (a channel post): on_message returns at its guard
on_message_ignored ==
    /\ proc = "polling" /\ h.pc = "idle" /\ handled < MaxUpdates
    /\ handled' = handled + 1
    /\ UNCHANGED <<settings, rules_file, rules_cache, proc, chat, telegram_user,
                   message, user_state, h, fetched, client, profile_op,
                   built, loads, runs>>

\* 0) Upsert chat + user: one try around both calls
on_message_upsert ==
    /\ h.pc = "upsert"
    /\ \E up_chat, up_user \in BOOLEAN :
          LET c == upsert_chat(up_chat, chat, h.update.chat_id)
              u == upsert_telegram_user(up_user, telegram_user, h.update.user_id)
          IN  /\ chat' = c.chat
              /\ telegram_user' = IF c.raised THEN telegram_user ELSE u.telegram_user
              /\ h' = StoreCallDone(h, "upsert", c.raised \/ u.raised, StepAfter(h.pc))
    /\ UNCHANGED <<settings, rules_file, rules_cache, proc, message, user_state,
                   handled, fetched, client, profile_op, built, loads, runs>>

\* 1) Insert incoming user event
on_message_insert_user ==
    /\ h.pc = "insert_user"
    /\ \E up \in BOOLEAN :
          LET r == insert_message(up, chat, telegram_user, message,
                                  Row(h.update.update_id, h.update.chat_id,
                                      h.update.user_id, ROLE_USER,
                                      SqlText(h.update.text)))
          IN  /\ message' = r.message
              /\ h' = StoreCallDone(h, "insert_user", r.raised, StepAfter(h.pc))
    /\ UNCHANGED <<settings, rules_file, rules_cache, proc, chat, telegram_user,
                   user_state, handled, fetched, client, profile_op, built,
                   loads, runs>>

\* 2) Invoke graph.  expected is the reply of the run in which no store
\* operation fails and the backend does the same (<<>>: none is sent).
on_message_graph ==
    /\ h.pc = "graph"
    /\ \E up_profile, up_turns \in BOOLEAN, b \in PipelineBehaviours(settings.LLM_BACKEND) :
          LET out == llm_node(settings, rules_file, rules_cache, telegram_user,
                              user_state, message, h.update, up_profile, up_turns, b)
              ideal == llm_node(settings, rules_file, rules_cache,
                                telegram_user \cup {h.update.user_id},
                                user_state, message, h.update, TRUE, TRUE, b)
              failed == IF out.raised = "sqlite3.Error" THEN {"read"} ELSE {}
          IN  /\ user_state' = out.user_state
              /\ rules_cache' = out.rules_cache
              /\ IF out.raised = "SystemExit"
                 THEN /\ h' = [h EXCEPT !.pc = "crashed"]
                      /\ proc' = "exited"
                 ELSE /\ h' = [h EXCEPT !.pc = StepAfter(h.pc),
                                        !.reply = ReplyOf(out).reply,
                                        !.new_desc = ReplyOf(out).new_desc,
                                        !.expected = ReplyOf(ideal).reply,
                                        !.failed = @ \cup failed]
                      /\ proc' = proc
    /\ UNCHANGED <<settings, rules_file, chat, telegram_user, message, handled,
                   fetched, client, profile_op, built, loads, runs>>

\* 3) Reply (critical path): await msg.reply_text(reply)
on_message_reply ==
    /\ h.pc = "reply"
    /\ h' = [h EXCEPT !.pc = StepAfter(h.pc), !.sent = h.reply]
    /\ UNCHANGED <<settings, rules_file, rules_cache, proc, chat, telegram_user,
                   message, user_state, handled, fetched, client, profile_op,
                   built, loads, runs>>

\* 4) Insert assistant event
on_message_insert_assistant ==
    /\ h.pc = "insert_assistant"
    /\ \E up \in BOOLEAN :
          LET r == insert_message(up, chat, telegram_user, message,
                                  Row(NULL_ID, h.update.chat_id, NULL_ID,
                                      ROLE_ASSISTANT, SqlText(h.reply)))
          IN  /\ message' = r.message
              /\ h' = StoreCallDone(h, "insert_assistant", r.raised, StepAfter(h.pc))
    /\ UNCHANGED <<settings, rules_file, rules_cache, proc, chat, telegram_user,
                   user_state, handled, fetched, client, profile_op, built,
                   loads, runs>>

\* 5) Replace user_description in DB: new_desc is never None
on_message_update_desc ==
    /\ h.pc = "update_desc"
    /\ \E up \in BOOLEAN :
          LET r == update_user_description(up, telegram_user, user_state,
                                           h.update.user_id, h.new_desc)
          IN  /\ user_state' = r.user_state
              /\ h' = StoreCallDone(h, "update_desc", r.raised, StepAfter(h.pc))
    /\ UNCHANGED <<settings, rules_file, rules_cache, proc, chat, telegram_user,
                   message, handled, fetched, client, profile_op, built,
                   loads, runs>>

\* on_message returns
on_message_return ==
    /\ h.pc = "done"
    /\ h' = IdleHandler
    /\ UNCHANGED <<settings, rules_file, rules_cache, proc, chat, telegram_user,
                   message, user_state, handled, fetched, client, profile_op,
                   built, loads, runs>>

Next ==
    \/ main
    \/ on_message_start
    \/ on_message_ignored
    \/ on_message_upsert
    \/ on_message_insert_user
    \/ on_message_graph
    \/ on_message_reply
    \/ on_message_insert_assistant
    \/ on_message_update_desc
    \/ on_message_return

Spec == Init /\ [][Next]_vars

-----------------------------------------------------------------------------
(* Two on_message runs on messages of one chat, side by side.  on_message is *)
(* a coroutine whose store calls and graph invoke block; its one await is    *)
(* `await msg.reply_text(reply)`, where another run can come in.  So a run   *)
(* is two steps: steps 0-2 up to the await, and steps 3-5 after it.  The     *)
(* policy file is in place; of the store calls, the event appends can fail.  *)

InterleaveInit ==
    /\ settings \in {c \in Configs : c.BOT_TOKEN /\ c.OPENAI_COMPAT_API_KEY}
    /\ rules_file = RulesOnDisk
    /\ rules_cache = NOT_LOADED
    /\ proc = "polling"
    /\ chat = {}
    /\ telegram_user = {}
    /\ message = <<>>
    /\ user_state = [u \in Users |-> NO_ROW]
    /\ h = IdleHandler
    /\ handled = 0
    /\ fetched = NotFetched
    /\ client = NoCall
    /\ profile_op = NoProfileCall
    /\ built = NotBuilt
    /\ loads = NoLoads
    /\ runs = NoRuns

\* Steps 0-2 of run r: upserts, user event append, graph invoke; the run
\* then waits in reply_text
RunUntilReply ==
    /\ \E r \in Runs, up \in BOOLEAN, b \in PipelineBehaviours(settings.LLM_BACKEND) :
          LET upd == [update_id |-> r, chat_id |-> 1, user_id |-> 1, text |-> <<"hi">>]
              c == upsert_chat(TRUE, chat, upd.chat_id)
              u == upsert_telegram_user(TRUE, telegram_user, upd.user_id)
              ins == insert_message(up, c.chat, u.telegram_user, message,
                                    Row(upd.update_id, upd.chat_id, upd.user_id,
                                        ROLE_USER, SqlText(upd.text)))
              out == llm_node(settings, rules_file, rules_cache, u.telegram_user,
                              user_state, ins.message, upd, TRUE, TRUE, b)
              h0 == [IdleHandler EXCEPT !.pc = "upsert", !.update = upd,
                                        !.desc_before = user_state[upd.user_id]]
              h1 == StoreCallDone(h0, "upsert", FALSE, StepAfter("upsert"))
              h2 == StoreCallDone(h1, "insert_user", ins.raised, StepAfter("insert_user"))
          IN  /\ runs.h[r].pc = "idle"
              /\ chat' = c.chat
              /\ telegram_user' = u.telegram_user
              /\ message' = ins.message
              /\ user_state' = out.user_state
              /\ rules_cache' = out.rules_cache
              /\ runs' = [runs EXCEPT
                    !.h[r] = [h2 EXCEPT !.pc = StepAfter("graph"),
                                        !.reply = ReplyOf(out).reply,
                                        !.new_desc = ReplyOf(out).new_desc,
                                        !.expected = ReplyOf(out).reply],
                    !.user_row[r] = IF ins.raised THEN 0 ELSE Len(ins.message)]
    /\ UNCHANGED <<settings, rules_file, proc, h, handled, fetched, client,
                   profile_op, built, loads>>

\* Steps 3-5 of run r: the reply was sent; assistant event append, profile
\* update, return
RunAfterReply ==
    /\ \E r \in Runs, up \in BOOLEAN :
          LET hr == runs.h[r]
              h3 == [hr EXCEPT !.pc = StepAfter("reply"), !.sent = hr.reply]
              ins == insert_message(up, chat, telegram_user, message,
                                    Row(NULL_ID, hr.update.chat_id, NULL_ID,
                                        ROLE_ASSISTANT, SqlText(hr.reply)))
              h4 == StoreCallDone(h3, "insert_assistant", ins.raised,
                                  StepAfter("insert_assistant"))
              d == update_user_description(TRUE, telegram_user, user_state,
                                           hr.update.user_id, hr.new_desc)
              h5 == StoreCallDone(h4, "update_desc", d.raised, StepAfter("update_desc"))
          IN  /\ hr.pc = "reply"
              /\ message' = ins.message
              /\ user_state' = d.user_state
              /\ runs' = [runs EXCEPT
                    !.h[r] = h5,
                    !.answer_row[r] = IF ins.raised THEN 0 ELSE Len(ins.message)]
    /\ UNCHANGED <<settings, rules_file, rules_cache, proc, chat, telegram_user,
                   h, handled, fetched, client, profile_op, built, loads>>

\* fetch_recent_events(1, n), at any moment
InterleaveFetch ==
    /\ \E n \in 1..MaxLimit :
          fetched' = [called |-> TRUE, chat_id |-> 1, limit_turns |-> n,
                      turns |-> fetch_recent_events(message, 1, n)]
    /\ UNCHANGED <<settings, rules_file, rules_cache, proc, chat, telegram_user,
                   message, user_state, h, handled, client, profile_op, built,
                   loads, runs>>

InterleaveNext == RunUntilReply \/ RunAfterReply \/ InterleaveFetch

InterleaveSpec == InterleaveInit /\ [][InterleaveNext]_vars

-----------------------------------------------------------------------------
(* Statements about fetch_recent_events *)

\* What a row of the log counts as in the pairing
IsUserEvent(i) == strip(message[i].role) = ROLE_USER
IsAssistantEvent(i) == strip(message[i].role) = ROLE_ASSISTANT
InChat(i, c) == message[i].chat_telegram_id = c

\* The ids of the chat's events, and of its most recent n events
ChatIds(c) == {i \in 1..Len(message) : InChat(i, c)}
RecentIds(c, n) == {i \in ChatIds(c) : Cardinality({j \in ChatIds(c) : j > i}) < n}

\* u is answered by a within the events ids: a is the first user or assistant
\* event of ids after u, and it is an assistant event
Answers(ids, u, a) ==
    /\ u \in ids /\ a \in ids /\ u < a
    /\ IsUserEvent(u) /\ IsAssistantEvent(a)
    /\ \A j \in ids : (u < j /\ j < a) => ~IsUserEvent(j) /\ ~IsAssistantEvent(j)

TurnOf(u, a) ==
    [user |-> strip(OrEmpty(message[u].text)),
     assistant |-> strip(OrEmpty(message[a].text)), uid |-> u, aid |-> a]

\* The turns among the events ids, oldest first
TurnSet(ids) == {TurnOf(p[1], p[2]) : p \in {q \in ids \X ids : Answers(ids, q[1], q[2])}}
TurnsOldestFirst(ids) ==
    LET T == TurnSet(ids)
    IN  [k \in 1..Cardinality(T) |->
            CHOOSE t \in T : Cardinality({x \in T : x.aid < t.aid}) = k - 1]
LastTurns(ids, n) ==
    LET ts == TurnsOldestFirst(ids)
    IN  SubSeq(ts, Max(Len(ts) - n, 0) + 1, Len(ts))

\* C1: every turn fetch_recent_events returns pairs a user event of the chat
\* with the first user-or-assistant event after it, which is an assistant
\* event; so an unanswered or overwritten user event and an assistant event
\* with no pending user event are in no turn, and no event is in two turns.
C1_TurnsPairUserWithNextAssistant ==
    fetched.called =>
        LET ts == fetched.turns
        IN  /\ \A k \in 1..Len(ts) :
                  /\ Answers(ChatIds(fetched.chat_id), ts[k].uid, ts[k].aid)
                  /\ ts[k] = TurnOf(ts[k].uid, ts[k].aid)
            /\ \A k \in 1..Len(ts) - 1 : ts[k].aid < ts[k + 1].uid

\* C1 witness: a turn was returned whose user event overwrote an unanswered
\* user event right before it and whose assistant event is followed by an
\* assistant event that found nothing pending
C1_Witness ==
    /\ fetched.called
    /\ \E k \in 1..Len(fetched.turns) :
          LET u == fetched.turns[k].uid
              a == fetched.turns[k].aid
          IN  /\ u > 1 /\ InChat(u - 1, fetched.chat_id) /\ IsUserEvent(u - 1)
              /\ a < Len(message) /\ InChat(a + 1, fetched.chat_id)
              /\ IsAssistantEvent(a + 1)

\* C5: fetch_recent_events(chat, N) returns at most N turns, for every N >= 0
C5_AtMostLimitTurns ==
    fetched.called => Len(fetched.turns) <= fetched.limit_turns

\* C6 as claimed: for N >= 1 the turns returned are the last N turns of the
\* pairing over the chat's whole history, oldest first
C6_LastTurnsOfWholeHistory ==
    (fetched.called /\ fetched.limit_turns >= 1) =>
        fetched.turns = LastTurns(ChatIds(fetched.chat_id), fetched.limit_turns)

\* C6 amended: for N >= 1 the turns returned are the last N turns of the
\* pairing over the chat's most recent max(20, 4N) events, oldest first
C6_LastTurnsOfWindow ==
    (fetched.called /\ fetched.limit_turns >= 1) =>
        fetched.turns =
            LastTurns(RecentIds(fetched.chat_id, WindowSize(fetched.limit_turns)),
                      fetched.limit_turns)

\* C6 witness: a read with limit 1 of a chat whose history is longer than
\* the window and holds turns outside it, the window holding two turns
C6_Witness ==
    /\ fetched.called /\ fetched.limit_turns = 1
    /\ Cardinality(ChatIds(fetched.chat_id)) > WindowSize(1)
    /\ Cardinality(TurnSet(RecentIds(fetched.chat_id, WindowSize(1)))) >= 2
    /\ Cardinality(TurnSet(ChatIds(fetched.chat_id))) >= 3
    /\ Len(fetched.turns) = 1

-----------------------------------------------------------------------------
(* Statements about generate_contract *)

\* C3: with the policy file in place, generate_contract returns normally,
\* whatever the backend does, and the assistant_text it returns is a
\* non-empty string
C3_ClientNeverRaisesAndTextNonEmpty ==
    (client.called /\ rules_file.exists) =>
        client.out.raised = "none" /\ client.out.assistant_text # <<>>

\* The text the model gave in the answer the client normalizes: the
\* `response` string of Ollama's answer, or the `content` string of the first
\* choice of the last answer of the OpenAI-compatible backend
ModelOutput ==
    LET o == client.behaviour.ollama
        r == IF client.out.posts = 2 THEN client.behaviour.r2 ELSE client.behaviour.r1
        none == [given |-> FALSE, s |-> <<>>]
    IN  IF ~client.called \/ client.out.posts = 0 THEN none
        ELSE IF settings.LLM_BACKEND = "ollama"
        THEN IF o.post = "resp" /\ o.status = 200 /\ o.body = "dict" /\ o.response.t = "str"
             THEN [given |-> TRUE, s |-> o.response.s] ELSE none
        ELSE IF r.post = "resp" /\ r.status = 200 /\ r.body = "dict"
                /\ r.shape = "choices" /\ r.content.t = "str"
        THEN [given |-> TRUE, s |-> r.content.s] ELSE none

\* C12 as claimed: when the model's output is one valid contract object,
\* alone or with prose before and/or after it, both strategies return the
\* object's two fields, trimmed
C12_ObjectInProseRecovered ==
    \A c \in ContractInProse :
        (ModelOutput.given /\ ModelOutput.s = c.text) =>
            /\ client.out.raised = "none"
            /\ client.out.assistant_text = strip(c.at)
            /\ client.out.updated_user_description = strip(c.ud)

\* The same when the prose holds no brace: the part of C12 that the greedy
\* first-"{"-to-last-"}" search leaves true
C12_ObjectInBraceFreeProseRecovered ==
    \A c \in ContractInProse :
        (ModelOutput.given /\ ModelOutput.s = c.text /\ ~c.braces) =>
            /\ client.out.raised = "none"
            /\ client.out.assistant_text = strip(c.at)
            /\ client.out.updated_user_description = strip(c.ud)

\* The error text of Ollama's answer: the "error" member of a JSON object
\* body, else the body text
ErrorTextOf(o) == IF o.body = "dict" /\ o.error.t = "str" THEN o.error.s ELSE o.text

NamesModelNotFound(text) ==
    Contains(lower(text), <<"model">>) /\ Contains(lower(text), <<"not", SP, "found">>)

\* The local strategy's generate request got an error status whose error
\* text names a model that is not found
ModelNotFoundAnswered ==
    /\ client.called /\ settings.LLM_BACKEND = "ollama" /\ client.out.posts = 1
    /\ client.behaviour.ollama.post = "resp"
    /\ client.behaviour.ollama.status >= 400
    /\ NamesModelNotFound(ErrorTextOf(client.behaviour.ollama))

MentionsSchema(text) ==
    \E i \in 1..Len(text) :
        Lower(text[i]) \in {"json_schema", "response_format", "schema", "strict"}

\* The first answer is an error status whose text mentions the schema
SchemaRejected(r1) == r1.post = "resp" /\ r1.status >= 400 /\ MentionsSchema(r1.text)

\* What the client returns for the answer r when r is the last answer:
\* assistant_text and updated_user_description
DerivedFrom(r, last) ==
    IF r.post = "exc" \/ r.status >= 400
    THEN /\ client.out.raised = "none"
         /\ client.out.updated_user_description = <<>>
         /\ IF r.post = "exc"
            THEN Contains(client.out.assistant_text, <<"LLM", SP, "connection">>)
            ELSE client.out.assistant_text =
                    <<"Remote", SP, "LLM", SP, "error", SP, StatusToken(r.status), ":", SP>>
                    \o r.text
    ELSE client.out = [OpenAIRequest(r, NoAnswer) EXCEPT !.posts = last]

\* C16: one invoke of the OpenAI-compatible strategy sends at most two
\* requests; the second is sent only when the first got an error status
\* whose text mentions schema / response format / strict; the second is
\* never retried and the response is derived from the last request made;
\* otherwise, and always for the local strategy, at most one request is sent
C16_AtMostOneRetry ==
    client.called =>
        /\ client.out.posts \in 0..2
        /\ settings.LLM_BACKEND # "openai_compat" => client.out.posts <= 1
        /\ client.out.posts = 2 <=>
                /\ settings.LLM_BACKEND = "openai_compat"
                /\ settings.OPENAI_COMPAT_API_KEY /\ rules_cache.loaded
                /\ SchemaRejected(client.behaviour.r1)
        /\ (settings.LLM_BACKEND = "openai_compat" /\ client.out.posts = 2) =>
                DerivedFrom(client.behaviour.r2, 2)
        /\ (settings.LLM_BACKEND = "openai_compat" /\ client.out.posts = 1) =>
                DerivedFrom(client.behaviour.r1, 1)

\* C16 witness: the strict-schema request was rejected, the JSON-object
\* request was rejected in the same way, and its error is what is returned
C16_Witness ==
    /\ client.called /\ client.out.posts = 2
    /\ SchemaRejected(client.behaviour.r1)
    /\ SchemaRejected(client.behaviour.r2)
    /\ client.behaviour.r1.text # client.behaviour.r2.text
    /\ Contains(client.out.assistant_text, client.behaviour.r2.text)
    /\ client.behaviour.r2.text # <<>>

-----------------------------------------------------------------------------
(* Statements about on_message and the process *)

Replied == h.sent # <<>>
WriteSteps == {"insert_user", "insert_assistant", "update_desc"}

\* C2: when the update the model gave is empty or absent (new_desc is ""),
\* the user's stored profile text after on_message equals the text stored
\* before the turn
C2_EmptyUpdateLeavesProfile ==
    (h.pc = "done" /\ h.new_desc = <<>>) =>
        ProfileText(user_state[h.update.user_id]) = ProfileText(h.desc_before)

C7_UpdateIdUnique ==
    \A i, j \in 1..Len(message) :
        (i < j /\ message[i].update_id # NULL_ID) =>
            message[i].update_id # message[j].update_id

\* C7 witness: an update whose user event was already stored was delivered
\* again and handled to the end; its insert raised, and the log holds the
\* first delivery's two events, the second reply, and one event with its id
C7_Witness ==
    /\ h.pc = "done" /\ "insert_user" \in h.failed
    /\ Len(message) >= 3
    /\ Cardinality({i \in 1..Len(message) :
                       message[i].update_id = h.update.update_id}) = 1

C9_AllWritesAfterReply ==
    h.early \cap WriteSteps = {}

\* C9 amended: the append of the assistant event and the profile update are
\* invoked only after the reply has been sent; the append of the inbound
\* user event is invoked before the pipeline runs and the reply is sent
C9_AssistantAndProfileWritesAfterReply ==
    /\ h.early \cap {"insert_assistant", "update_desc"} = {}
    /\ "insert_user" \in h.wrote => "insert_user" \in h.early
    /\ h.pc \in {"graph", "reply"} => "insert_user" \in h.wrote

\* C9 witness: a handling in which all three writes were invoked
C9_Witness ==
    /\ h.pc = "done" /\ WriteSteps \subseteq h.wrote /\ h.failed = {}
    /\ h.early = {"upsert", "insert_user"}

-----------------------------------------------------------------------------
(* Statements about the request builders *)

\* The texts of subs occur in s one after the other, from position `from` on
RECURSIVE InOrder(_, _, _)
InOrder(s, subs, from) ==
    IF subs = <<>> THEN TRUE
    ELSE \E i \in from..(Len(s) - Len(Head(subs))) :
            /\ SubSeq(s, i + 1, i + Len(Head(subs))) = Head(subs)
            /\ InOrder(s, Tail(subs), i + Len(Head(subs)))

\* The user and assistant texts of the turns, in order
RECURSIVE TurnTexts(_)
TurnTexts(history) ==
    IF history = <<>> THEN <<>>
    ELSE <<Head(history).user, Head(history).assistant>> \o TurnTexts(Tail(history))

\* C13: the request built for a turn holds every prior turn the store
\* returned, in the same order, followed by the new user message, and holds
\* the user's profile text verbatim
C13_RequestHoldsTurnsMessageProfile ==
    built.called =>
        \A p \in {built.graph_prompt, built.prompt} :
            /\ InOrder(p, TurnTexts(built.history) \o <<strip(built.user_text)>>, 0)
            /\ Contains(p, built.profile)

\* What both builders do give: the turns that have both texts, in order,
\* followed by the new message, unless the hard trim cut the prompt
C13_CompleteTurnsThenMessage ==
    built.called =>
        \A p \in {built.graph_prompt, built.prompt} :
            Head(p) # CUT =>
                InOrder(p, TurnTexts(SelectSeq(built.history,
                                LAMBDA t : t.user # <<>> /\ t.assistant # <<>>))
                           \o <<strip(built.user_text)>>, 0)

-----------------------------------------------------------------------------
(* Statements about load_system_rules *)

\* A call that returned a text
Loaded(c) == loads.call[c].pc = "done" /\ loads.call[c].raised = "none"

\* C15: every call of load_system_rules that began after a call had returned
\* a text returns that text, whatever happened to the file since; and two
\* callers that race on the first load (both found the cache empty) obtain
\* the same text
C15_LoadedOnceAndRaceAgrees ==
    /\ \A c \in Callers :
          (Loaded(c) /\ loads.call[c].after_first) =>
              loads.call[c].value = loads.first.s
    /\ \A c, d \in Callers :
          (Loaded(c) /\ Loaded(d) /\ loads.call[c].miss /\ loads.call[d].miss) =>
              loads.call[c].value = loads.call[d].value

\* The first half of C15 alone, and what the cache holds
C15_LaterCallsReturnFirstText ==
    /\ \A c \in Callers :
          (Loaded(c) /\ loads.call[c].after_first) =>
              loads.call[c].value = loads.first.s
    /\ loads.first.loaded => rules_cache = loads.first

-----------------------------------------------------------------------------
(* Statements about on_message runs side by side *)

\* C17: whatever the interleaving of the on_message runs of one chat, every
\* turn fetch_recent_events returns pairs the user event of a message with
\* the assistant event that was appended as the answer to that message
C17_TurnsPairMessageWithItsAnswer ==
    fetched.called =>
        \A k \in 1..Len(fetched.turns) :
            \E r \in Runs : /\ runs.user_row[r] = fetched.turns[k].uid
                            /\ runs.answer_row[r] = fetched.turns[k].aid

\* The same when the runs did not overlap and no append failed
C17_SequentialRunsPairRight ==
    (/\ fetched.called
     /\ \A r \in Runs : runs.h[r].failed = {}
     /\ \A i \in 1..Len(message) - 1 : message[i].role # message[i + 1].role) =>
        \A k \in 1..Len(fetched.turns) :
            \E r \in Runs : /\ runs.user_row[r] = fetched.turns[k].uid
                            /\ runs.answer_row[r] = fetched.turns[k].aid

-----------------------------------------------------------------------------
(* Statements about the profile functions *)

\* C11: get_user_description for a never-seen user id returns "", and so
\* does the get that follows it; after update_user_description(uid, t) with a
\* non-empty t, get_user_description(uid) returns the text of the last update
C11_ProfileGetSet ==
    /\ (profile_op.op = "get" /\ (profile_op.never_seen \/ profile_op.again)) =>
            ~profile_op.raised /\ profile_op.value = <<>>
    /\ profile_op.op = "set" => ~profile_op.raised
    /\ (profile_op.op = "get" /\ profile_op.last[profile_op.uid].set) =>
            ~profile_op.raised /\ profile_op.value = profile_op.last[profile_op.uid].s

\* The same for the user ids that have a telegram_user row: the part of C11
\* that the foreign key of user_state leaves true
C11_KnownUserGetSet ==
    profile_op.uid \in telegram_user =>
        /\ profile_op.op \in {"get", "set"} => ~profile_op.raised
        /\ (profile_op.op = "get" /\ ~profile_op.last[profile_op.uid].set) =>
                profile_op.value = <<>>
        /\ (profile_op.op = "get" /\ profile_op.last[profile_op.uid].set) =>
                profile_op.value = profile_op.last[profile_op.uid].s

====
